---- MODULE Spec2Model ----
(***************************************************************************)
(* Model of src/summary/summary_service.py: the summary generation service *)
(* (create_summary, call_hyperclova, analyze_importance,                   *)
(* map_importance_to_enum and the nested clean_text).                      *)
(*                                                                         *)
(* Text is a sequence of characters.  A character is a one-element name:   *)
(* ASCII characters stand for themselves, "\n" is the line feed, and a     *)
(* Hangul syllable is written "h_" followed by its romanisation            *)
(* ("h_nop" "h_eum" is the two-character word 높음).                       *)
(***************************************************************************)
EXTENDS Integers, Sequences, FiniteSets, TLC

\* ------------------------------------------------------------------ text

\* Characters str.strip() and the regex class \s remove (those the model uses).
WS == {" ", "\n"}

\* The regex class [:\-] (also written [-:]).
SEP == {":", "-"}

UpperLetters == <<"A","B","C","D","E","F","G","H","I","J","K","L","M",
                  "N","O","P","Q","R","S","T","U","V","W","X","Y","Z">>

LowerLetters == <<"a","b","c","d","e","f","g","h","i","j","k","l","m",
                  "n","o","p","q","r","s","t","u","v","w","x","y","z">>

\* str.lower() on one character.
LowerChar(c) ==
    IF \E k \in 1..Len(UpperLetters) : UpperLetters[k] = c
    THEN LowerLetters[CHOOSE k \in 1..Len(UpperLetters) : UpperLetters[k] = c]
    ELSE c

\* str.lower()
Lower(s) == [k \in 1..Len(s) |-> LowerChar(s[k])]

\* The literal p occurs in s at position i.
IsAt(p, s, i) ==
    /\ i >= 1
    /\ i + Len(p) - 1 <= Len(s)
    /\ \A k \in 1..Len(p) : s[i + k - 1] = p[k]

\* Python's `p in s`.
Contains(s, p) == \E i \in 1..(Len(s) - Len(p) + 1) : IsAt(p, s, i)

\* A greedy run X* of the class S starting at i: the position after it.
RunEnd(s, i, S) ==
    CHOOSE j \in i..(Len(s) + 1) :
        /\ \A k \in i..(j - 1) : s[k] \in S
        /\ (j = Len(s) + 1 \/ s[j] \notin S)

\* An optional character X? of the class S at i: the position after it.
OptEnd(s, i, S) == IF i <= Len(s) /\ s[i] \in S THEN i + 1 ELSE i

\* The tail \s*[:\-]?\s* shared by the label patterns: the position after it.
SepTailEnd(s, i) == RunEnd(s, OptEnd(s, RunEnd(s, i, WS), SEP), WS)

\* s from position i on.
From(s, i) == SubSeq(s, i, Len(s))

\* str.strip()
Strip(s) ==
    LET l == RunEnd(s, 1, WS)
    IN  IF l > Len(s) THEN <<>>
        ELSE LET r == CHOOSE j \in l..Len(s) :
                          /\ s[j] \notin WS
                          /\ \A k \in (j + 1)..Len(s) : s[k] \in WS
             IN  SubSeq(s, l, r)

\* ------------------------------------------------- words of the program

W_high == <<"h_nop", "h_eum">>
W_medium == <<"h_bo", "h_tong">>
W_low == <<"h_nat", "h_eum">>
W_urgent == <<"h_gin", "h_geup">>
W_routine == <<"h_il", "h_sang">>
W_simple == <<"h_dan", "h_sun">>
W_important == <<"h_jung", "h_yo">>
W_critical == <<"c", "r", "i", "t", "i", "c", "a", "l">>
W_importance == <<"h_jung", "h_yo", "h_do">>
W_evaluation == <<"h_pyeong", "h_ga">>
W_reason == <<"h_i", "h_yu">>
W_importance_subj == <<"h_jung", "h_yo", "h_do", "h_ga">>
W_as == <<"h_eu", "h_ro">>
W_is_judged == <<"h_pan", "h_dan", "h_doep", "h_ni", "h_da">>
W_meeting == <<"h_hoe", "h_ui">>
W_purpose == <<"h_mok", "h_jeok">>
W_main == <<"h_ju", "h_yo">>
W_agenda == <<"h_an", "h_geon">>
W_overall == <<"h_jeon", "h_che">>
W_summary == <<"h_yo", "h_yak">>
W_keyword == <<"h_ki", "h_wo", "h_deu">>

\* The three level words analyze_importance produces.
Levels == {W_high, W_medium, W_low}

\* ------------------------------------------------------- importance

map_importance_to_enum(korean_level) ==
    IF \/ Contains(korean_level, W_high)
       \/ Contains(korean_level, W_urgent)
       \/ Contains(korean_level, W_important)
    THEN "HIGH"
    ELSE IF Contains(korean_level, W_low) THEN "LOW"
    ELSE "MEDIUM"

\* analyze_level searching the text as given, without summary.lower().
analyze_level_case_sensitive(summary) ==
    IF \/ Contains(summary, W_high)
       \/ Contains(summary, W_critical)
       \/ Contains(summary, W_urgent)
    THEN W_high
    ELSE IF \/ Contains(summary, W_low)
            \/ Contains(summary, W_routine)
            \/ Contains(summary, W_simple)
    THEN W_low
    ELSE W_medium

\* The level chosen by analyze_importance (lines 86-94).
analyze_level(summary) ==
    LET lower_summary == Lower(summary)
    IN  IF \/ Contains(lower_summary, W_high)
           \/ Contains(lower_summary, W_critical)
           \/ Contains(lower_summary, W_urgent)
        THEN W_high
        ELSE IF \/ Contains(lower_summary, W_low)
                \/ Contains(lower_summary, W_routine)
                \/ Contains(lower_summary, W_simple)
        THEN W_low
        ELSE IF Contains(lower_summary, W_medium) THEN W_medium
        ELSE W_medium

\* (높음|보통|낮음) at i: the position after it, 0 when none is there.
LevelWordEnd(s, i) == IF \E w \in Levels : IsAt(w, s, i) THEN i + 2 ELSE 0

\* The optional group (중요도\s*평가\s*[:\-]?\s*) at the start of s: the
\* position after it, 0 when it is not there.
EvalLabelEnd(s) ==
    IF ~IsAt(W_importance, s, 1) THEN 0
    ELSE LET j == RunEnd(s, Len(W_importance) + 1, WS)
         IN  IF ~IsAt(W_evaluation, s, j) THEN 0
             ELSE SepTailEnd(s, j + Len(W_evaluation))

\* re.sub(r'^(중요도\s*평가\s*[:\-]?\s*)?(높음|보통|낮음)\s*[-:]?\s*', '', s)
StripLevelPrefix(s) ==
    LET g == EvalLabelEnd(s)
        withGroup == IF g = 0 THEN 0 ELSE LevelWordEnd(s, g)
        e == IF withGroup # 0 THEN withGroup ELSE LevelWordEnd(s, 1)
    IN  IF e = 0 THEN s ELSE From(s, SepTailEnd(s, e))

\* re.sub(r'^이유\s*:\s*', '', s)
StripReasonLabel(s) ==
    IF ~IsAt(W_reason, s, 1) THEN s
    ELSE LET j == RunEnd(s, Len(W_reason) + 1, WS)
         IN  IF j <= Len(s) /\ s[j] = ":"
             THEN From(s, RunEnd(s, j + 1, WS))
             ELSE s

\* 중요도가\s*"(높음|보통|낮음)"으로\s*판단됩니다\.? tried at position p: the
\* position after the match, 0 when it does not match there.
VerdictEnd(s, p) ==
    IF ~IsAt(W_importance_subj, s, p) THEN 0
    ELSE LET a == RunEnd(s, p + Len(W_importance_subj), WS)
         IN  IF ~(IsAt(<<"\"">>, s, a) /\ LevelWordEnd(s, a + 1) # 0) THEN 0
             ELSE IF ~IsAt(<<"\"">> \o W_as, s, a + 3) THEN 0
             ELSE LET b == RunEnd(s, a + 4 + Len(W_as), WS)
                  IN  IF ~IsAt(W_is_judged, s, b) THEN 0
                      ELSE OptEnd(s, b + Len(W_is_judged), {"."})

\* The anchor $: the end of the string, or just before a final line feed.
AtEnd(s, c) == c = Len(s) + 1 \/ (c = Len(s) /\ s[c] = "\n")

\* The pattern matches from p and its match reaches the anchor.
VerdictMatchesFrom(s, p) == VerdictEnd(s, p) # 0 /\ AtEnd(s, VerdictEnd(s, p))

\* re.sub(r'중요도가\s*"(높음|보통|낮음)"으로\s*판단됩니다\.?$', '', s)
StripVerdictSentence(s) ==
    IF \E p \in 1..Len(s) : VerdictMatchesFrom(s, p)
    THEN LET p == CHOOSE q \in 1..Len(s) :
                      /\ VerdictMatchesFrom(s, q)
                      /\ \A r \in 1..(q - 1) : ~VerdictMatchesFrom(s, r)
         IN  SubSeq(s, 1, p - 1) \o From(s, VerdictEnd(s, p))
    ELSE s

\* analyze_reason without the `if not clean_reason` fallback of line 100.
analyze_reason_no_fallback(summary) ==
    Strip(StripVerdictSentence(Strip(StripReasonLabel(Strip(StripLevelPrefix(summary))))))

\* The reason computed by analyze_importance (lines 96-101).
analyze_reason(summary) ==
    LET r1 == Strip(StripLevelPrefix(summary))
        r2 == Strip(StripReasonLabel(r1))
        r3 == Strip(StripVerdictSentence(r2))
    IN  IF r3 = <<>> THEN summary ELSE r3

analyze_importance(summary) ==
    [level |-> analyze_level(summary), reason |-> analyze_reason(summary)]

\* ------------------------------------------------------- clean_text

\* re.sub(r'\*\*|__|\#\#|\#', '', text): one left-to-right scan.
RECURSIVE RemoveMarkdown(_)
RemoveMarkdown(text) ==
    IF text = <<>> THEN <<>>
    ELSE IF \/ IsAt(<<"*", "*">>, text, 1)
            \/ IsAt(<<"_", "_">>, text, 1)
            \/ IsAt(<<"#", "#">>, text, 1)
    THEN RemoveMarkdown(From(text, 3))
    ELSE IF text[1] = "#" THEN RemoveMarkdown(Tail(text))
    ELSE <<text[1]>> \o RemoveMarkdown(Tail(text))

\* The prefix patterns ^(qual\s*)?label\s*[:\-]?\s* of lines 210-212, 223.
PurposePattern == [qual |-> W_meeting, label |-> W_purpose]
AgendaPattern == [qual |-> W_main, label |-> W_agenda]
SummaryPattern == [qual |-> W_overall, label |-> W_summary]
KeywordPattern == [qual |-> <<>>, label |-> W_keyword]
Patterns == {PurposePattern, AgendaPattern, SummaryPattern, KeywordPattern}

\* re.sub(prefix_pattern, '', text, flags=re.IGNORECASE)
RemovePrefix(text, pat) ==
    LET withQual ==
            IF pat.qual # <<>> /\ IsAt(pat.qual, text, 1)
            THEN LET j == RunEnd(text, Len(pat.qual) + 1, WS)
                 IN  IF IsAt(pat.label, text, j) THEN j + Len(pat.label) ELSE 0
            ELSE 0
        bare == IF IsAt(pat.label, text, 1) THEN Len(pat.label) + 1 ELSE 0
        e == IF withQual # 0 THEN withQual ELSE bare
    IN  IF e = 0 THEN text ELSE From(text, SepTailEnd(text, e))

\* text.replace('"', '').replace("'", "")
RemoveQuotes(text) == SelectSeq(text, LAMBDA c : c \notin {"\"", "'"})

clean_text(text, prefix_pattern) ==
    Strip(RemoveQuotes(RemovePrefix(RemoveMarkdown(text), prefix_pattern)))

\* ------------------------------------------------------- keywords

\* str.split(',')
RECURSIVE Split(_)
Split(s) ==
    IF \A k \in 1..Len(s) : s[k] # ","
    THEN <<s>>
    ELSE LET c == CHOOSE k \in 1..Len(s) :
                      s[k] = "," /\ \A m \in 1..(k - 1) : s[m] # ","
         IN  <<SubSeq(s, 1, c - 1)>> \o Split(From(s, c + 1))

\* The list comprehension without its `if k.strip()` filter.
StripTokens_keep_empty(tokens) == [k \in 1..Len(tokens) |-> Strip(tokens[k])]

\* [k.strip() for k in keywords_text.split(',') if k.strip()]
StripTokens(tokens) ==
    LET stripped == [k \in 1..Len(tokens) |-> Strip(tokens[k])]
    IN  SelectSeq(stripped, LAMBDA t : t # <<>>)

parse_keywords(keywords_raw) ==
    StripTokens(Split(clean_text(keywords_raw, KeywordPattern)))

\* ------------------------------------------------------- JSON values

JObj(f) == [t |-> "obj", f |-> f]
JStr(v) == [t |-> "str", v |-> v]
JNull == [t |-> "null"]

\* The empty dict {}.
EmptyDict == [k \in {} |-> JNull]

\* dict.get(k, default)
Get(o, k, default) == IF k \in DOMAIN o.f THEN o.f[k] ELSE default

\* Python truth value of a JSON value.
Truthy(v) ==
    CASE v.t = "obj" -> DOMAIN v.f # {}
      [] v.t = "str" -> v.v # <<>>
      [] OTHER -> FALSE

\* ------------------------------------------------------- errors

\* "HyperCLOVA API 오류: "
D_upstream == <<"H","y","p","e","r","C","L","O","V","A"," ","A","P","I"," ",
                "h_o","h_ryu",":"," ">>

\* "API 호출 중 알 수 없는 오류: "
D_unknown == <<"A","P","I"," ","h_ho","h_chul"," ","h_jung"," ","h_al"," ",
               "h_su"," ","h_eop","h_neun"," ","h_o","h_ryu",":"," ">>

\* "요약 생성 중 내부 오류: "
D_internal == <<"h_yo","h_yak"," ","h_saeng","h_seong"," ","h_jung"," ",
                "h_nae","h_bu"," ","h_o","h_ryu",":"," ">>

Digit == <<"0","1","2","3","4","5","6","7","8","9">>

\* str(n) for a natural number.
RECURSIVE Digits(_)
Digits(n) == IF n < 10 THEN <<Digit[n + 1]>>
             ELSE Digits(n \div 10) \o <<Digit[(n % 10) + 1]>>

\* fastapi.HTTPException(status_code, detail)
HTTPException(status_code, detail) ==
    [cls |-> "HTTPException", status_code |-> status_code, detail |-> detail]

\* Any other exception, with its message.
OtherException(cls, message) == [cls |-> cls, message |-> message]

\* str(e): an HTTPException prints as "<status_code>: <detail>" (Starlette's
\* __str__; releases without it print the empty string).  Either way the
\* text follows the prefix of the handler that formats it.
StrOfException(e) ==
    IF e.cls = "HTTPException"
    THEN Digits(e.status_code) \o <<":", " ">> \o e.detail
    ELSE e.message

\* Messages of the exceptions the libraries raise.
M_timeout == <<"t","i","m","e","o","u","t">>
M_closed == <<"c","l","i","e","n","t"," ","c","l","o","s","e","d">>
M_badurl == <<"I","n","v","a","l","i","d"," ","u","r","l">>
M_badjson == <<"E","x","p","e","c","t","i","n","g"," ","v","a","l","u","e">>
M_noattr == <<"n","o"," ","a","t","t","r","i","b","u","t","e">>

Returned(text) == [ok |-> TRUE, text |-> text]
Raised(e) == [ok |-> FALSE, err |-> e]

\* ------------------------------------------------------- call_hyperclova

\* read_completion without the status check of lines 161-162.
read_completion_ignore_status(data) ==
    LET result == Get(data, "result", JObj(EmptyDict))
        msg == IF result.t = "obj" THEN Get(result, "message", JObj(EmptyDict))
               ELSE JNull
        content == IF msg.t = "obj" THEN Get(msg, "content", JStr(<<>>)) ELSE JNull
        result_text == IF Truthy(content) \/ result.t # "obj" THEN content
                       ELSE Get(result, "text", JStr(<<>>))
    IN  IF result.t # "obj" \/ msg.t # "obj" \/ result_text.t # "str"
        THEN Raised(OtherException("AttributeError", M_noattr))
        ELSE Returned(Strip(result_text.v))

\* Lines 161-166 on the parsed body `data`: the value returned, or the
\* exception raised inside the try block.
read_completion(data) ==
    LET status == Get(data, "status", JNull)
    IN  IF Truthy(status) /\ status.t # "obj"
        THEN Raised(OtherException("AttributeError", M_noattr))
        ELSE IF Truthy(status)
                /\ Get(status, "code", JNull) # JStr(<<"2","0","0","0","0">>)
        THEN LET message == Get(status, "message", JNull)
             IN  Raised(HTTPException(500,
                     D_upstream \o (IF message.t = "str" THEN message.v
                                    ELSE <<"N","o","n","e">>)))
        ELSE LET result == Get(data, "result", JObj(EmptyDict))
             IN  IF result.t # "obj"
                 THEN Raised(OtherException("AttributeError", M_noattr))
                 ELSE LET msg == Get(result, "message", JObj(EmptyDict))
                      IN  IF msg.t # "obj"
                          THEN Raised(OtherException("AttributeError", M_noattr))
                          ELSE LET content == Get(msg, "content", JStr(<<>>))
                                   result_text ==
                                       IF Truthy(content) THEN content
                                       ELSE Get(result, "text", JStr(<<>>))
                               IN  IF result_text.t # "str"
                                   THEN Raised(OtherException("AttributeError",
                                                              M_noattr))
                                   ELSE Returned(Strip(result_text.v))

\* Lines 157-166: what the try block does with the reply to client.post.
try_block(reply) ==
    IF reply.kind = "error"
    THEN Raised(OtherException(reply.cls, reply.message))
    ELSE IF reply.status_code < 200 \/ reply.status_code >= 300
    THEN Raised([cls |-> "HTTPStatusError", status_code |-> reply.status_code,
                 text |-> reply.text])
    ELSE IF reply.json.t = "invalid"
    THEN Raised(OtherException("JSONDecodeError", M_badjson))
    ELSE IF reply.json.t # "obj"
    THEN Raised(OtherException("AttributeError", M_noattr))
    ELSE read_completion(reply.json)

\* Lines 168-173: the except clauses, tried in order.
except_clauses(e) ==
    IF e.cls = "HTTPStatusError"
    THEN HTTPException(e.status_code, D_upstream \o e.text)
    ELSE HTTPException(500, D_unknown \o StrOfException(e))

\* call_hyperclova with a handler that swallows the failure and returns "".
call_hyperclova_swallow(reply) ==
    LET r == try_block(reply)
    IN  IF r.ok THEN r ELSE Returned(<<>>)

\* call_hyperclova from the reply to its request on: Returned(text) or
\* Raised(HTTPException).
call_hyperclova(reply) ==
    LET r == try_block(reply)
    IN  IF r.ok THEN r ELSE Raised(except_clauses(r.err))

\* ------------------------------------------------------- bounds

\* Transcript lines of a request, at most.
MaxLines == 1

\* Distinct completion texts the provider may return for one task.
NumReplies == 2

\* ------------------------------------------------------- requests

\* The five tasks, in the order of the list of line 191: 회의목적, 주요안건,
\* 전체요약, 중요도, 키워드.
TaskTypes == <<"purpose", "agenda", "summary", "importance", "keywords">>

NumTasks == Len(TaskTypes)
Tasks == 1..NumTasks

\* JOB_PERSONAS.get(user_job, persona_general): the key of the persona used.
Persona(user_job) ==
    IF user_job \in {"PROJECT_MANAGER", "FRONTEND_DEVELOPER", "BACKEND_DEVELOPER",
                     "DATABASE_ADMINISTRATOR", "SECURITY_DEVELOPER", "general"}
    THEN user_job ELSE "general"

\* token_settings.get(task_type, 500)
MaxTokens(task_type) ==
    CASE task_type \in {"purpose", "agenda", "importance"} -> 100
      [] task_type = "summary" -> 150
      [] task_type = "keywords" -> 50
      [] OTHER -> 500

\* Lines 179-183: "\n".join(f"{display_name} ({t.time}): {t.text}").
RECURSIVE JoinLines(_)
JoinLines(lines) ==
    IF lines = <<>> THEN <<>>
    ELSE IF Len(lines) = 1 THEN lines[1]
    ELSE lines[1] \o <<"\n">> \o JoinLines(Tail(lines))

ConversationText(request) ==
    JoinLines([k \in 1..Len(request.transcripts) |->
        LET t == request.transcripts[k]
            display_name == IF t.speaker \in DOMAIN request.speakerMapping
                            THEN request.speakerMapping[t.speaker]
                            ELSE t.speaker
        IN  display_name \o <<" ", "(">> \o t.time \o <<")", ":", " ">> \o t.text])

\* The body call_hyperclova posts for a task (lines 115-154): the system
\* persona, the task whose prompt template is filled with the conversation
\* text, and the token budget.
RequestBody(conversation_text, task_type, user_job) ==
    [system |-> IF task_type \in {"importance", "keywords"}
                THEN Persona(user_job) ELSE "general",
     prompt |-> [task |-> task_type, conversation |-> conversation_text],
     maxTokens |-> MaxTokens(task_type)]

\* The requests the model tries create_summary on: 0..MaxLines transcript
\* lines, the speakers taking turns; S1 has a display name, S2 has none.
Speaker(k) == IF k % 2 = 1 THEN <<"S", "1">> ELSE <<"S", "2">>
Requests ==
    {[transcripts |-> [k \in 1..n |->
                          [speaker |-> Speaker(k), time |-> <<"0", "1">>,
                           text |-> <<"t">>]],
      speakerMapping |-> [x \in {<<"S", "1">>} |-> <<"A", "l">>],
      userJob |-> "BACKEND_DEVELOPER"] : n \in 0..MaxLines}

\* ------------------------------------------------------- replies

\* The label a completion for a task starts with.
TaskLabel(i) ==
    CASE i = 1 -> W_meeting \o <<" ">> \o W_purpose \o <<":", " ">>
      [] i = 2 -> <<"*", "*">> \o W_agenda \o <<"*", "*", " ">>
      [] i = 3 -> W_summary \o <<" ", "-", " ">>
      [] i = 4 -> <<>>
      [] i = 5 -> W_keyword \o <<":", " ">>

\* The k-th completion text the provider may return for task i.
Completion(i, k) ==
    LET letter == LowerLetters[((k - 1) % 26) + 1]
        level == <<W_high, W_low, W_medium, W_important>>[((k - 1) % 4) + 1]
    IN  CASE i = 4 -> level \o <<" ", "-", " ">> \o <<letter>>
          [] i = 5 -> TaskLabel(5) \o <<letter, ",", " ", TaskTypes[5], letter, ",">>
          [] OTHER -> TaskLabel(i) \o <<TaskTypes[i], letter>>

CODE_OK == <<"2","0","0","0","0">>
CODE_REJECTED == <<"4","0","0","0","0">>

\* A 2xx reply whose body has the given status object and completion text.
JsonReply(status, text) ==
    [kind |-> "http", status_code |-> 200, text |-> <<>>,
     json |-> JObj([status |-> status,
                    result |-> JObj([message |-> JObj([content |-> JStr(text)])])])]

\* A non-2xx reply with its raw body.
HttpErrorReply(status_code, text) ==
    [kind |-> "http", status_code |-> status_code, text |-> text, json |-> JNull]

\* client.post itself raises (timeout, connection reset, closed client).
TransportErrorReply(cls, message) == [kind |-> "error", cls |-> cls, message |-> message]

RejectedReply ==
    JsonReply(JObj([code |-> JStr(CODE_REJECTED), message |-> JStr(<<"q","u","o","t","a">>)]),
              <<>>)

\* What the provider side may answer to the request of task i.
Replies(i) ==
    {JsonReply(JObj([code |-> JStr(CODE_OK), message |-> JStr(<<"O","K">>)]),
               Completion(i, k)) : k \in 1..NumReplies}
    \cup {RejectedReply,
          HttpErrorReply(401, <<"d","e","n","i","e","d">>),
          TransportErrorReply("ReadTimeout", M_timeout)}

\* The upstream call failed: no completion came back for the request.
IsFailure(reply) ==
    \/ reply.kind = "error"
    \/ /\ reply.kind = "http"
       /\ \/ reply.status_code < 200 \/ reply.status_code >= 300
          \/ reply.json.t # "obj"
          \/ LET status == Get(reply.json, "status", JNull)
             IN  status.t = "obj" /\ Get(status, "code", JNull) = JStr(CODE_REJECTED)

\* ------------------------------------------------------- create_summary

\* Line 219: re.sub(r'^[\-\s]*', '', reason)
StripLeadingHyphens(reason) == From(reason, RunEnd(reason, 1, WS \cup {"-"}))

\* "\n\n(중요도 판정 사유: "
S_rationale == <<"\n", "\n", "(", "h_jung", "h_yo", "h_do", " ", "h_pan",
                 "h_jeong", " ", "h_sa", "h_yu", ":", " ">>

\* The unpacking of line 199 with agenda_raw and summary_raw exchanged.
Unpack_swapped(results) ==
    [purpose_raw |-> results[1], agenda_raw |-> results[3],
     summary_raw |-> results[2], importance_raw |-> results[4],
     keywords_raw |-> results[5]]

\* Line 199: the five results, unpacked by position.
Unpack(results) ==
    [purpose_raw |-> results[1], agenda_raw |-> results[2],
     summary_raw |-> results[3], importance_raw |-> results[4],
     keywords_raw |-> results[5]]

\* Lines 199-235: the Summary built from the gathered results.
build_summary(results) ==
    LET raw == Unpack(results)
        importance_obj == analyze_importance(raw.importance_raw)
        clean_reason == StripLeadingHyphens(importance_obj.reason)
    IN  [purpose |-> clean_text(raw.purpose_raw, PurposePattern),
         agenda |-> clean_text(raw.agenda_raw, AgendaPattern),
         overallSummary |-> clean_text(raw.summary_raw, SummaryPattern)
                            \o S_rationale \o clean_reason \o <<")">>,
         importance |-> map_importance_to_enum(importance_obj.level),
         keywords |-> parse_keywords(raw.keywords_raw),
         actions |-> <<>>]

\* Lines 237-242: the error create_summary raises for a caught exception.
reraise(e) ==
    IF e.cls = "HTTPException" THEN e
    ELSE HTTPException(500, D_internal \o StrOfException(e))

\* ------------------------------------------------------- state

VARIABLES
    request,    \* the SummaryRequest create_summary was called with
    urlOk,      \* CLOVA_API_URL (line 22) holds a usable URL
    pc,         \* create_summary: "start", "gather", "returned", "raised"
    client,     \* the httpx.AsyncClient of line 188: "none", "open", "closed"
    st,         \* per call_hyperclova coroutine: "none", "scheduled",
                \* "inflight" (suspended in client.post), "done"
    sent,       \* the request bodies handed to client.post, in order
    reply,      \* per coroutine: the reply its request got
    outcome,    \* per coroutine: Returned(text) or Raised(error)
    ready,      \* the event loop's queue of handles, run first in first out
    outer,      \* the future gather returns: pending, result or exception
    nfinished,  \* gather's count of children that finished
    firstDone,  \* the first coroutine to finish (0: none yet)
    ret,        \* what create_summary returned or raised
    arg,        \* input of the function under test (function harnesses)
    out,        \* its outputs
    stage       \* harness position: "off", "input", "applied", "reapplied"

orch == <<request, urlOk, pc, client, st, sent, reply, outcome, ready, outer,
          nfinished, firstDone, ret>>
harness == <<arg, out, stage>>
vars == <<orch, harness>>

NoReply == [kind |-> "none"]
NoOutcome == [ok |-> FALSE, err |-> [cls |-> "none"]]
Pending == [state |-> "pending"]
Handle(kind, i) == [kind |-> kind, i |-> i]

HarnessOff == arg = <<>> /\ out = <<>> /\ stage = "off"

\* create_summary has been called and has not run yet.
InitOrch ==
    /\ request \in Requests
    /\ urlOk \in BOOLEAN
    /\ pc = "start"
    /\ client = "none"
    /\ st = [i \in Tasks |-> "none"]
    /\ sent = <<>>
    /\ reply = [i \in Tasks |-> NoReply]
    /\ outcome = [i \in Tasks |-> NoOutcome]
    /\ ready = <<>>
    /\ outer = Pending
    /\ nfinished = 0
    /\ firstDone = 0
    /\ ret = [cls |-> "none"]

Init == InitOrch /\ HarnessOff

\* Line 198, asyncio.gather without return_exceptions, when child i has
\* finished with r: the first exception is set on the outer future at once,
\* the results, in the order of the list, when the last child has finished;
\* either wakes create_summary.  Nothing is done once the outer future is
\* done.  `queue` is the loop's queue after the child's step.
GatherDoneCallback(i, r, queue) ==
    IF outer.state # "pending"
    THEN /\ ready' = queue
         /\ UNCHANGED <<outer, nfinished>>
    ELSE IF ~r.ok
    THEN /\ outer' = [state |-> "exception", exc |-> r.err]
         /\ nfinished' = nfinished + 1
         /\ ready' = Append(queue, Handle("main", 0))
    ELSE /\ nfinished' = nfinished + 1
         /\ IF nfinished + 1 = NumTasks
            THEN /\ outer' = [state |-> "result",
                              results |-> [k \in Tasks |->
                                  IF k = i THEN r.text ELSE outcome[k].text]]
                 /\ ready' = Append(queue, Handle("main", 0))
            ELSE /\ ready' = queue
                 /\ UNCHANGED outer

\* Coroutine i finished with r: its task is done and gather is told.
Finish(i, r, queue) ==
    /\ outcome' = [outcome EXCEPT ![i] = r]
    /\ st' = [st EXCEPT ![i] = "done"]
    /\ firstDone' = IF firstDone = 0 THEN i ELSE firstDone
    /\ GatherDoneCallback(i, r, queue)

\* Start with an early exit for an empty transcript list: no task is created.
Start_short_circuit ==
    /\ pc = "start"
    /\ IF request.transcripts = <<>>
       THEN /\ pc' = "raised"
            /\ ret' = HTTPException(400, <<"e", "m", "p", "t", "y">>)
            /\ UNCHANGED <<client, st, ready>>
       ELSE /\ pc' = "gather"
            /\ client' = "open"
            /\ st' = [i \in Tasks |-> "scheduled"]
            /\ ready' = [i \in Tasks |-> Handle("step", i)]
            /\ UNCHANGED ret
    /\ UNCHANGED <<request, urlOk, sent, reply, outcome, outer, nfinished,
                   firstDone, harness>>

\* Lines 179-198: create_summary runs up to `await asyncio.gather(*tasks)`:
\* it opens the client, and gather wraps the five coroutines in tasks, whose
\* first steps are queued in list order.
Start ==
    /\ pc = "start"
    /\ pc' = "gather"
    /\ client' = "open"
    /\ st' = [i \in Tasks |-> "scheduled"]
    /\ ready' = [i \in Tasks |-> Handle("step", i)]
    /\ UNCHANGED <<request, urlOk, sent, reply, outcome, outer, nfinished,
                   firstDone, ret, harness>>

\* Lines 115-157: the loop runs a coroutine's first step, which builds its
\* request and calls client.post.  With no usable URL or a closed client the
\* call raises at once; otherwise the coroutine is suspended until the reply.
TaskStep(i) ==
    /\ ready # <<>> /\ Head(ready) = Handle("step", i)
    /\ sent' = Append(sent, RequestBody(ConversationText(request), TaskTypes[i],
                                        request.userJob))
    /\ IF ~urlOk
       THEN Finish(i, call_hyperclova(TransportErrorReply("TypeError", M_badurl)),
                   Tail(ready))
       ELSE IF client # "open"
       THEN Finish(i, call_hyperclova(TransportErrorReply("RuntimeError", M_closed)),
                   Tail(ready))
       ELSE /\ st' = [st EXCEPT ![i] = "inflight"]
            /\ ready' = Tail(ready)
            /\ UNCHANGED <<outcome, firstDone, outer, nfinished>>
    /\ UNCHANGED <<request, urlOk, pc, client, reply, ret, harness>>

\* Lines 157-173: the reply to an in-flight request has arrived and the
\* coroutine resumes and runs to its end.  The loop polls for replies only
\* after the iteration that ran the five first steps.
TaskResume(i) ==
    /\ st[i] = "inflight"
    /\ \A k \in 1..Len(ready) : ready[k].kind # "step"
    /\ \E r \in Replies(i) :
        /\ reply' = [reply EXCEPT ![i] = r]
        /\ Finish(i, call_hyperclova(r), ready)
    /\ UNCHANGED <<request, urlOk, pc, client, sent, ret, harness>>

\* Lines 198-242: create_summary resumes from the await with the results or
\* the exception, leaves the `async with` block (the client is closed) and
\* returns the Summary or raises.
MainResume ==
    /\ ready # <<>> /\ Head(ready) = Handle("main", 0)
    /\ pc = "gather"
    /\ IF outer.state = "exception"
       THEN /\ pc' = "raised"
            /\ ret' = reraise(outer.exc)
       ELSE /\ pc' = "returned"
            /\ ret' = build_summary(outer.results)
    /\ client' = "closed"
    /\ ready' = Tail(ready)
    /\ UNCHANGED <<request, urlOk, st, sent, reply, outcome, outer, nfinished,
                   firstDone, harness>>

Next ==
    \/ Start
    \/ \E i \in Tasks : TaskStep(i)
    \/ \E i \in Tasks : TaskResume(i)
    \/ MainResume

Spec == Init /\ [][Next]_vars

\* ------------------------------------------------------- function harnesses

\* Pieces a harness input is made of, at most.
MaxImpPieces == 3
MaxCleanPieces == 3
MaxKwPieces == 4

RECURSIVE Flatten(_)
Flatten(pieces) ==
    IF pieces = <<>> THEN <<>> ELSE Head(pieces) \o Flatten(Tail(pieces))

\* The texts made of at most n pieces of the set P.
Texts(P, n) == UNION {{Flatten(ps) : ps \in [1..k -> P]} : k \in 0..n}

\* create_summary is not running.
OrchOff ==
    /\ request = CHOOSE r \in Requests : r.transcripts = <<>>
    /\ urlOk = TRUE
    /\ pc = "off"
    /\ client = "none"
    /\ st = [i \in Tasks |-> "none"]
    /\ sent = <<>>
    /\ reply = [i \in Tasks |-> NoReply]
    /\ outcome = [i \in Tasks |-> NoOutcome]
    /\ ready = <<>>
    /\ outer = Pending
    /\ nfinished = 0
    /\ firstDone = 0
    /\ ret = [cls |-> "none"]

\* --- analyze_importance and map_importance_to_enum (lines 215-216)

W_Critical == <<"C", "r", "i", "t", "i", "c", "a", "l">>

\* 중요도가 "낮음"으로 판단됩니다.
VerdictSentence ==
    W_importance_subj \o <<" ", "\"">> \o W_low \o <<"\"">> \o W_as \o <<" ">>
    \o W_is_judged \o <<".">>

ImportancePieces ==
    {W_high, W_low, W_medium, W_urgent, W_routine, W_simple, W_important,
     W_critical, W_Critical, W_reason, W_importance \o <<" ">> \o W_evaluation,
     VerdictSentence, <<":">>, <<" ">>, <<"-">>, <<"x">>}

InitImportance ==
    /\ OrchOff
    /\ arg \in Texts(ImportancePieces, MaxImpPieces)
    /\ out = <<>>
    /\ stage = "input"

\* Lines 215-216 on the raw importance text.
Classify ==
    /\ stage = "input"
    /\ stage' = "applied"
    /\ LET importance_obj == analyze_importance(arg)
       IN  out' = [importance_obj |-> importance_obj,
                   enum_value |-> map_importance_to_enum(importance_obj.level)]
    /\ UNCHANGED <<arg, orch>>

NextImportance == Classify

SpecImportance == InitImportance /\ [][NextImportance]_vars

\* --- clean_text (lines 201-212, 223)

CleanPieces(pat) ==
    {pat.label, <<":">>, <<"-">>, <<" ">>, <<"*">>, <<"_">>, <<"#">>, <<"\"">>,
     <<"'">>, <<"x">>} \cup (IF pat.qual = <<>> THEN {} ELSE {pat.qual})

InitClean ==
    /\ OrchOff
    /\ \E pat \in Patterns :
        arg \in {[text |-> t, prefix_pattern |-> pat] :
                    t \in Texts(CleanPieces(pat), MaxCleanPieces)}
    /\ out = <<>>
    /\ stage = "input"

\* clean_text on the raw text.
CleanOnce ==
    /\ stage = "input"
    /\ stage' = "applied"
    /\ out' = <<clean_text(arg.text, arg.prefix_pattern)>>
    /\ UNCHANGED <<arg, orch>>

\* clean_text on its own output.
CleanAgain ==
    /\ stage = "applied"
    /\ stage' = "reapplied"
    /\ out' = Append(out, clean_text(out[1], arg.prefix_pattern))
    /\ UNCHANGED <<arg, orch>>

NextClean == CleanOnce \/ CleanAgain

SpecClean == InitClean /\ [][NextClean]_vars

\* --- keyword parsing (lines 222-224)

W_budget == <<"h_ye", "h_san">>
W_schedule == <<"h_il", "h_jeong">>
W_security == <<"h_bo", "h_an">>

\* "키워드: 예산, 일정,  보안 , "
KeywordExample ==
    W_keyword \o <<":", " ">> \o W_budget \o <<",", " ">> \o W_schedule
    \o <<",", " ", " ">> \o W_security \o <<" ", ",", " ">>

KeywordPieces ==
    {W_keyword, <<":">>, <<",">>, <<" ">>, <<"a">>, <<"b">>, <<"\"">>, <<"#">>}

InitKeywords ==
    /\ OrchOff
    /\ arg \in Texts(KeywordPieces, MaxKwPieces) \cup {KeywordExample}
    /\ out = <<>>
    /\ stage = "input"

\* Lines 223-224 on the raw keyword text.
ParseKeywords ==
    /\ stage = "input"
    /\ stage' = "applied"
    /\ out' = parse_keywords(arg)
    /\ UNCHANGED <<arg, orch>>

NextKeywords == ParseKeywords

SpecKeywords == InitKeywords /\ [][NextKeywords]_vars

\* --- call_hyperclova on one reply (lines 156-173)

\* The shapes of the "status" field: absent (no key), null, {}, an object
\* without a code, code "20000", another code, a string.
StatusFields ==
    {EmptyDict} \cup
    {[status |-> v] : v \in
        {JNull, JObj(EmptyDict), JStr(<<"o", "k">>),
         JObj([message |-> JStr(<<"m">>)]),
         JObj([code |-> JStr(CODE_OK)]),
         JObj([code |-> JStr(CODE_OK), message |-> JStr(<<"O", "K">>)]),
         JObj([code |-> JStr(CODE_REJECTED)]),
         JObj([code |-> JStr(CODE_REJECTED), message |-> JStr(<<"m">>)])}}

CallTexts == {Completion(1, k) : k \in 1..NumReplies} \cup {<<" ", "x", "\n">>}

\* The shapes of the "result" field.
ResultFields ==
    {EmptyDict} \cup
    {[result |-> v] : v \in
        {JNull, JObj(EmptyDict), JObj([message |-> JNull]),
         JObj([message |-> JObj([content |-> JNull])]),
         JObj([message |-> JObj([content |-> JObj(EmptyDict)])])}
        \cup {JObj([message |-> JObj([content |-> JStr(t)])]) : t \in CallTexts}
        \cup {JObj([text |-> JStr(t)]) : t \in CallTexts}
        \cup {JObj([message |-> JObj([content |-> JStr(<<>>)]), text |-> JStr(t)]) :
                t \in CallTexts}}

CallReplies ==
    {[kind |-> "http", status_code |-> 200, text |-> <<>>, json |-> JObj(sf @@ rf)] :
        sf \in StatusFields, rf \in ResultFields}
    \cup {[kind |-> "http", status_code |-> 200, text |-> <<>>, json |-> j] :
            j \in {JNull, [t |-> "invalid"]}}
    \cup {HttpErrorReply(c, <<"n", "o">>) : c \in {401, 500}}
    \cup {TransportErrorReply("ReadTimeout", M_timeout)}

InitCall ==
    /\ OrchOff
    /\ arg \in CallReplies
    /\ out = <<>>
    /\ stage = "input"

\* call_hyperclova receives the reply to its request.
Call ==
    /\ stage = "input"
    /\ stage' = "applied"
    /\ out' = call_hyperclova(arg)
    /\ UNCHANGED <<arg, orch>>

NextCall == Call

SpecCall == InitCall /\ [][NextCall]_vars

\* ------------------------------------------------------- properties

Resolved == pc \in {"returned", "raised"}

\* The upstream call of coroutine i failed.
CallFailed(i) == st[i] = "done" /\ (reply[i] = NoReply \/ IsFailure(reply[i]))

IsSummary(v) == DOMAIN v = {"purpose", "agenda", "overallSummary", "importance",
                            "keywords", "actions"}

\* C1: when create_summary has resolved and at least one of the five upstream
\* calls has failed, it has raised an HTTPException and returned no Summary;
\* it returns a Summary only when all five calls have completed successfully.
C1_AllOrNothing ==
    /\ (Resolved /\ \E i \in Tasks : CallFailed(i))
          => (pc = "raised" /\ ~IsSummary(ret) /\ ret.cls = "HTTPException")
    /\ pc = "returned"
          => /\ IsSummary(ret)
             /\ \A i \in Tasks : st[i] = "done" /\ ~CallFailed(i) /\ outcome[i].ok

\* One call failed while others were still in flight, and create_summary raised.
C1_Witness ==
    /\ pc = "raised"
    /\ \E i, j \in Tasks : CallFailed(i) /\ st[j] = "done" /\ outcome[j].ok

\* The Upstream-API error of line 162 for a provider message.
UpstreamApiError(message) == HTTPException(500, D_upstream \o message)

\* C2: a 2xx reply with a status code other than "20000" makes call_hyperclova
\* fail with the Upstream-API error (500, "HyperCLOVA API 오류: " + message),
\* and create_summary raises that error unchanged.
C2_RejectionReachesCaller ==
    /\ \A i \in Tasks :
          reply[i] = RejectedReply
             => outcome[i] = Raised(UpstreamApiError(<<"q","u","o","t","a">>))
    /\ (/\ pc = "raised"
        /\ urlOk
        /\ \A i \in Tasks : CallFailed(i) => reply[i] = RejectedReply)
          => ret = UpstreamApiError(<<"q","u","o","t","a">>)

\* C4: no task is ever requested twice, and when create_summary has resolved
\* each of the five tasks has had its request, carrying the conversation
\* text, handed to client.post.
C4_EachTaskOnce ==
    /\ \A k1, k2 \in 1..Len(sent) :
          k1 # k2 => sent[k1].prompt.task # sent[k2].prompt.task
    /\ Resolved =>
          \A i \in Tasks : \E k \in 1..Len(sent) :
              /\ sent[k].prompt.task = TaskTypes[i]
              /\ sent[k].prompt.conversation = ConversationText(request)

\* An empty transcript list, one call failed early, the others still pending.
C4_Witness ==
    /\ pc = "raised"
    /\ request.transcripts = <<>>
    /\ ConversationText(request) = <<>>
    /\ Len(sent) = NumTasks
    /\ \E i \in Tasks : st[i] = "inflight"

\* C9: once the shared client is closed no upstream call is still pending on it.
C9_NoCallOnClosedClient ==
    client = "closed" => \A i \in Tasks : st[i] \notin {"scheduled", "inflight"}

\* The completion text a successful reply carries, as call_hyperclova returns it.
ReplyText(r) == Strip(r.json.f.result.f.message.f.content.v)

\* C10: every field of the returned Summary is derived from the reply to its
\* own task, whatever the order in which the calls completed.
C10_OwnResponse ==
    pc = "returned" =>
        /\ ret.purpose = clean_text(ReplyText(reply[1]), PurposePattern)
        /\ ret.agenda = clean_text(ReplyText(reply[2]), AgendaPattern)
        /\ ret.overallSummary =
              clean_text(ReplyText(reply[3]), SummaryPattern) \o S_rationale
              \o StripLeadingHyphens(analyze_reason(ReplyText(reply[4]))) \o <<")">>
        /\ ret.importance = map_importance_to_enum(analyze_level(ReplyText(reply[4])))
        /\ ret.keywords = parse_keywords(ReplyText(reply[5]))
        /\ Contains(ret.purpose, <<TaskTypes[1]>>)
        /\ Contains(ret.agenda, <<TaskTypes[2]>>)
        /\ Contains(ret.overallSummary, <<TaskTypes[3]>>)
        /\ \E k \in 1..Len(ret.keywords) : Contains(ret.keywords[k], <<TaskTypes[5]>>)

\* A Summary was returned although the keywords call completed first.
C10_Witness == pc = "returned" /\ firstDone = NumTasks

\* --- call_hyperclova

Is2xxJson(r) == r.kind = "http" /\ r.status_code = 200 /\ r.json.t = "obj"
StatusOf(r) == Get(r.json, "status", JNull)
CodeOf(r) == IF StatusOf(r).t = "obj" THEN Get(StatusOf(r), "code", JNull) ELSE JNull
NonEmptyObject(v) == v.t = "obj" /\ DOMAIN v.f # {}

\* The result payload has the documented shape.
WellFormedResult(r) ==
    LET result == Get(r.json, "result", JObj(EmptyDict))
    IN  /\ result.t = "obj"
        /\ Get(result, "message", JObj(EmptyDict)).t = "obj"
        /\ Get(Get(result, "message", JObj(EmptyDict)), "content", JStr(<<>>)).t = "str"
        /\ Get(result, "text", JStr(<<>>)).t = "str"

\* C3 (as stated): a 2xx JSON reply succeeds only when its status code is
\* "20000", and fails whenever a status object is present with another code.
C3_SuccessOnlyWith20000 ==
    (stage = "applied" /\ Is2xxJson(arg)) =>
        /\ out.ok => CodeOf(arg) = JStr(CODE_OK)
        /\ (StatusOf(arg).t = "obj" /\ CodeOf(arg) # JStr(CODE_OK)) => ~out.ok

\* C3 (amended): a 2xx JSON reply succeeds only when its status field is
\* absent or falsy (null, {}) or its code is "20000"; a non-empty status
\* object with any other code, or without a code, fails; and a reply with a
\* well-formed result is not failed when its status is absent, falsy or
\* carries "20000".
C3_StatusDecides ==
    (stage = "applied" /\ Is2xxJson(arg)) =>
        /\ out.ok => (~Truthy(StatusOf(arg)) \/ CodeOf(arg) = JStr(CODE_OK))
        /\ (NonEmptyObject(StatusOf(arg)) /\ CodeOf(arg) # JStr(CODE_OK)) => ~out.ok
        /\ (/\ WellFormedResult(arg)
            /\ ~Truthy(StatusOf(arg)) \/ (StatusOf(arg).t = "obj"
                                           /\ CodeOf(arg) = JStr(CODE_OK)))
              => out.ok

\* A status object without a code failed the call.
C3_Witness ==
    /\ stage = "applied"
    /\ Is2xxJson(arg)
    /\ NonEmptyObject(StatusOf(arg))
    /\ "code" \notin DOMAIN StatusOf(arg).f
    /\ ~out.ok

\* --- importance

\* `w in s.lower()` for a lower-case word w.
ContainsAnyCase(s, w) ==
    \E i \in 1..(Len(s) - Len(w) + 1) :
        \A k \in 1..Len(w) : LowerChar(s[i + k - 1]) = w[k]

HasHighKeyword(s) ==
    Contains(s, W_high) \/ ContainsAnyCase(s, W_critical) \/ Contains(s, W_urgent)
HasLowKeyword(s) ==
    Contains(s, W_low) \/ Contains(s, W_routine) \/ Contains(s, W_simple)

\* C5: the importance of the Summary is HIGH for a text with 높음, critical
\* (any case) or 긴급, else LOW for a text with 낮음, 일상 or 단순, else
\* MEDIUM; map_importance_to_enum keeps the level analyze_importance chose.
C5_Precedence ==
    stage = "applied" =>
        /\ out.enum_value = IF HasHighKeyword(arg) THEN "HIGH"
                            ELSE IF HasLowKeyword(arg) THEN "LOW"
                            ELSE "MEDIUM"
        /\ out.enum_value = CASE out.importance_obj.level = W_high -> "HIGH"
                              [] out.importance_obj.level = W_low -> "LOW"
                              [] out.importance_obj.level = W_medium -> "MEDIUM"

\* A text with a capitalised "Critical" and a low keyword was rated HIGH.
C5_Witness ==
    /\ stage = "applied"
    /\ Contains(arg, W_Critical)
    /\ HasLowKeyword(arg)
    /\ out.enum_value = "HIGH"

NoLevelKeyword(s) ==
    ~HasHighKeyword(s) /\ ~HasLowKeyword(s) /\ ~Contains(s, W_medium)

\* C6 (as stated): a text without level keywords gets level 보통 and a reason
\* equal to the original text.
C6_ReasonIsInput ==
    (stage = "applied" /\ NoLevelKeyword(arg)) =>
        /\ out.importance_obj.level = W_medium
        /\ out.importance_obj.reason = arg

\* t starts with the label 이유, optional whitespace, a colon; j is the
\* position of the colon.
LabelColonAt(t, j) ==
    /\ IsAt(W_reason, t, 1)
    /\ j > Len(W_reason) /\ j <= Len(t) /\ t[j] = ":"
    /\ \A k \in (Len(W_reason) + 1)..(j - 1) : t[k] \in WS

\* The text with its surrounding whitespace removed and, if it then starts
\* with an 이유: label, without the label.
WithoutReasonLabel(s) ==
    LET t == Strip(s)
    IN  IF \E j \in 1..Len(t) : LabelColonAt(t, j)
        THEN Strip(From(t, (CHOOSE j \in 1..Len(t) : LabelColonAt(t, j)) + 1))
        ELSE t

\* C6 (amended): a text without level keywords gets level 보통 and a reason
\* equal to the text with surrounding whitespace and a leading 이유: label
\* removed, or to the original text when nothing is left.
C6_ReasonIsTrimmedInput ==
    (stage = "applied" /\ NoLevelKeyword(arg)) =>
        /\ out.importance_obj.level = W_medium
        /\ out.importance_obj.reason =
              IF WithoutReasonLabel(arg) = <<>> THEN arg ELSE WithoutReasonLabel(arg)

\* A text starting with the 이유: label lost the label.
C6_Witness ==
    /\ stage = "applied"
    /\ NoLevelKeyword(arg)
    /\ IsAt(W_reason \o <<":">>, arg, 1)
    /\ out.importance_obj.reason # <<>>
    /\ out.importance_obj.reason # arg

\* --- clean_text

\* C7: clean_text applied to its own output, with the same prefix pattern,
\* changes nothing.
C7_Idempotent == stage = "reapplied" => out[2] = out[1]

\* --- keywords

\* The number of commas of c before position p.
CommasBefore(c, p) == Cardinality({q \in 1..(p - 1) : c[q] = ","})

\* The positions of the non-whitespace characters of the m-th comma-separated
\* segment of c.
SegmentInk(c, m) ==
    {p \in 1..Len(c) : c[p] \notin WS \cup {","} /\ CommasBefore(c, p) = m - 1}

\* The m-th comma-separated segment of c, trimmed.
Token(c, m) ==
    LET ink == SegmentInk(c, m)
    IN  IF ink = {} THEN <<>>
        ELSE SubSeq(c, CHOOSE p \in ink : \A q \in ink : p <= q,
                       CHOOSE p \in ink : \A q \in ink : p >= q)

ExpectedKeywords(c) ==
    SelectSeq([m \in 1..(CommasBefore(c, Len(c) + 1) + 1) |-> Token(c, m)],
              LAMBDA t : t # <<>>)

\* C8: the keywords are the comma-separated tokens of the cleaned text, each
\* trimmed, empty ones dropped, in order and with duplicates kept; no keyword
\* is empty, starts or ends with whitespace, or contains a comma; the
\* example of the specification gives 예산, 일정, 보안.
C8_KeywordTokens ==
    stage = "applied" =>
        /\ out = ExpectedKeywords(clean_text(arg, KeywordPattern))
        /\ \A k \in 1..Len(out) :
              /\ out[k] # <<>>
              /\ out[k][1] \notin WS /\ out[k][Len(out[k])] \notin WS
              /\ \A p \in 1..Len(out[k]) : out[k][p] # ","
        /\ arg = KeywordExample => out = <<W_budget, W_schedule, W_security>>

\* The example of the specification was parsed.
C8_Witness ==
    /\ stage = "applied"
    /\ arg = KeywordExample
    /\ out = <<W_budget, W_schedule, W_security>>
====
